---- MODULE Spec2Model ----
(***************************************************************************)
(* Model of src/app.py: the paginated fetch-and-normalize pipeline         *)
(* (fetch_104_jobs), the salary normalizer (parse_salary) and the skill    *)
(* tokenizer of the dashboard (all_skills).                                *)
(*                                                                         *)
(* Python values are modelled as follows.                                  *)
(*   str    a sequence of one-character strings                            *)
(*   None   the value None below (no str is equal to it)                   *)
(*   dict   a record whose DOMAIN is the set of keys present; the small    *)
(*          "link" object, which may be the empty dict, is a set of        *)
(*          <<key, value>> pairs                                           *)
(*   list   a sequence                                                     *)
(*   float  a rational [num, den], compared by cross-multiplication        *)
(***************************************************************************)
EXTENDS Integers, Sequences, FiniteSets, TLC

VARIABLES
    \* ---- fetch_104_jobs(keyword, pages) ----
    pc,            \* position of the one call: "idle", "request", "waiting",
                   \* "records", "finish", "done"
    pages,         \* the pages argument
    page,          \* the loop variable of line 34
    jobs,          \* records of the current page not yet iterated (line 58)
    job_list,      \* the accumulating list of job_info (lines 24, 74)
    progress_bar,  \* value shown by the progress bar; "empty" after line 85
    status_text,   \* <<kind, page>> of the last status line (lines 35, 84)
    returned,      \* the rows of the returned DataFrame (line 86)
    \* ---- the world around the call, recorded as it happens ----
    requested,     \* page numbers of the GET requests issued, in order
    inflight,      \* number of requests issued and not yet answered
    served,        \* the response received for each requested page, in order
    reports,       \* values the progress sink was given, in order: the 0 of
                   \* st.progress(0), then those of progress_bar.progress
    errors,        \* page numbers passed to st.error, in order
    escaped,       \* TRUE iff an exception left fetch_104_jobs
    \* ---- df['薪資原文'].apply(parse_salary), one row ----
    salary_pc,     \* "off", "input", "parsed"
    salary_str,    \* the cell of column 薪資原文
    avg_salary,    \* the cell of column 平均月薪
    \* ---- skill join (line 61) and tokenizing (lines 185-188), one row ----
    skill_pc,      \* "off", "input", "joined", "tokenized"
    skill_job,     \* the raw record whose specialty is joined
    skill_str,     \* the cell of column 擅長工具
    all_skills     \* the token list of lines 185-188

fetchVars == <<pc, pages, page, jobs, job_list, progress_bar, status_text,
               returned, requested, inflight, served, reports, errors, escaped>>
salaryVars == <<salary_pc, salary_str, avg_salary>>
skillVars == <<skill_pc, skill_job, skill_str, all_skills>>
vars == <<fetchVars, salaryVars, skillVars>>

(***************************************************************************)
(* Bounds of the model.                                                    *)
(***************************************************************************)
MaxPages == 3
MaxListings == 3
MaxSalaryLen == 5
MaxSkillLen == 2
MaxSkills == 2

(***************************************************************************)
(* Python strings.                                                         *)
(***************************************************************************)
None == <<"<None>">>

EmptyStr == <<>>

\* sub in s
Contains(s, sub) ==
    \E i \in 0..(Len(s) - Len(sub)) :
        \A k \in 1..Len(sub) : s[i + k] = sub[k]

\* s[:n]
Prefix(s, n) == SubSeq(s, 1, IF Len(s) < n THEN Len(s) ELSE n)

\* f"{v}": None formats as the four letters None
Format(v) == IF v = None THEN <<"N", "o", "n", "e">> ELSE v

RECURSIVE RemoveChar(_, _)
\* s.replace(c, "") for a one-character c
RemoveChar(s, c) ==
    IF s = <<>> THEN <<>>
    ELSE IF Head(s) = c THEN RemoveChar(Tail(s), c)
         ELSE <<Head(s)>> \o RemoveChar(Tail(s), c)

RECURSIVE JoinWith(_, _)
\* sep.join(parts)
JoinWith(sep, parts) ==
    IF parts = <<>> THEN <<>>
    ELSE IF Len(parts) = 1 THEN Head(parts)
         ELSE Head(parts) \o sep \o JoinWith(sep, Tail(parts))

RECURSIVE SplitScan(_, _, _)
\* the scan of s.split(c): cur is the token being read
SplitScan(s, c, cur) ==
    IF s = <<>> THEN <<cur>>
    ELSE IF Head(s) = c THEN <<cur>> \o SplitScan(Tail(s), c, <<>>)
         ELSE SplitScan(Tail(s), c, Append(cur, Head(s)))

\* s.split(c) for a one-character c
Split(s, c) == SplitScan(s, c, <<>>)

(***************************************************************************)
(* Python numbers: an int n is num = n, den = 1; the float a / b is        *)
(* num = a, den = b.  NoneNumber stands for None where a number may be.    *)
(***************************************************************************)
NoneNumber == [isNone |-> TRUE, num |-> 0, den |-> 1]

Num(n, d) == [isNone |-> FALSE, num |-> n, den |-> d]

\* int n
Int_(n) == Num(n, 1)

\* a // b (floor division) in place of a / b
FloorDiv(a, b) == Num(a \div b, 1)

\* a / b (true division)
TrueDiv(a, b) == Num(a, b)

\* x == y on numbers
NumEq(x, y) == x.num * y.den = y.num * x.den

\* x < y on numbers (denominators are positive)
NumLt(x, y) == x.num * y.den < y.num * x.den

(***************************************************************************)
(* parse_salary (lines 89-109).                                            *)
(***************************************************************************)
Digits == <<"0", "1", "2", "3", "4", "5", "6", "7", "8", "9">>

\* a character matched by \d
IsDigit(c) == \E d \in 1..Len(Digits) : Digits[d] = c

DigitVal(c) == (CHOOSE d \in 1..Len(Digits) : Digits[d] = c) - 1

RECURSIVE IntOf(_)
\* int(run) for a run of digits
IntOf(run) ==
    IF run = <<>> THEN 0
    ELSE 10 * IntOf(SubSeq(run, 1, Len(run) - 1)) + DigitVal(run[Len(run)])

\* what the scan emits when a run ends
Flush(cur) == IF cur = <<>> THEN <<>> ELSE <<cur>>

RECURSIVE FindAllScan(_, _)
\* the left-to-right scan of re.findall(r'\d+', s): cur is the run being read
FindAllScan(s, cur) ==
    IF s = <<>> THEN Flush(cur)
    ELSE IF IsDigit(Head(s)) THEN FindAllScan(Tail(s), Append(cur, Head(s)))
         ELSE Flush(cur) \o FindAllScan(Tail(s), <<>>)

\* re.findall(r'\d+', s)
FindAllDigits(s) == FindAllScan(s, <<>>)

\* The module is written in ASCII: a CJK character is written as its pinyin,
\* and is one character of the modelled string.
\* "面議" (line 94)
Negotiable == <<"mian", "yi">>
\* "時薪" (line 96)
Hourly == <<"shi", "xin">>
\* "日薪" (line 96)
Daily == <<"ri", "xin">>
\* "," (lines 61, 100, 188)
Comma == ","

\* lines 104-109
SalaryOfNumbers(numbers) ==
    IF Len(numbers) = 2
    THEN TrueDiv(IntOf(numbers[1]) + IntOf(numbers[2]), 2)
    ELSE IF Len(numbers) = 1 THEN Int_(IntOf(numbers[1]))
         ELSE NoneNumber

parse_salary_keep_commas(salary_str_) ==
    IF Contains(salary_str_, Negotiable) THEN NoneNumber
    ELSE IF Contains(salary_str_, Hourly) \/ Contains(salary_str_, Daily)
         THEN NoneNumber
         ELSE SalaryOfNumbers(FindAllDigits(salary_str_))

parse_salary(salary_str_) ==
    IF Contains(salary_str_, Negotiable) THEN NoneNumber
    ELSE IF Contains(salary_str_, Hourly) \/ Contains(salary_str_, Daily)
         THEN NoneNumber
         ELSE LET clean_str == RemoveChar(salary_str_, Comma)
                  numbers == FindAllDigits(clean_str)
              IN  SalaryOfNumbers(numbers)

(***************************************************************************)
(* Raw job records and the job_info built from one (lines 58-74).          *)
(***************************************************************************)
EmptyDict == [k \in {} |-> <<>>]

\* d.get(key, default)
Get(d, key, default) == IF key \in DOMAIN d THEN d[key] ELSE default

\* "不拘" (line 61)
Sentinel == <<"bu", "ju">>

\* "..." (line 71)
Ellipsis == <<".", ".", ".">>

\* "https:" (line 72)
Scheme == <<"h", "t", "t", "p", "s", ":">>

\* the slice bound of line 71
PreviewLen == 100

\* line 60
Specialties(job) == Get(job, "specialty", <<>>)

\* line 61 raises: KeyError for a descriptor without 'description',
\* TypeError from join for a description that is None
SkillRaises(job) ==
    LET specialties == Specialties(job)
    IN  /\ specialties # <<>>
        /\ \E i \in 1..Len(specialties) :
              \/ "description" \notin DOMAIN specialties[i]
              \/ specialties[i].description = None

\* line 61, when it does not raise
SkillStr(job) ==
    LET specialties == Specialties(job)
    IN  IF specialties # <<>>
        THEN JoinWith(<<Comma>>,
                      [i \in 1..Len(specialties) |-> specialties[i].description])
        ELSE Sentinel

\* line 71 raises: TypeError for None[:100]
PreviewRaises(job) == Get(job, "description", EmptyStr) = None

\* line 71, when it does not raise
Preview(job) == Prefix(Get(job, "description", EmptyStr), PreviewLen) \o Ellipsis

\* line 72: job.get("link") is falsy when the key is missing or the dict empty
Url(job) ==
    IF "link" \in DOMAIN job /\ job.link # EmptyDict
    THEN Scheme \o Format(Get(job.link, "job", None))
    ELSE EmptyStr

\* the exception raised while building job_info from job, "" when none
JobException(job) ==
    IF SkillRaises(job)
    THEN (IF \E i \in 1..Len(Specialties(job)) :
                "description" \notin DOMAIN Specialties(job)[i]
          THEN "KeyError" ELSE "TypeError")
    ELSE IF PreviewRaises(job) THEN "TypeError" ELSE ""

\* lines 63-73.  The keys of job_info, in order: 職缺名稱 title, 公司名稱 company,
\* 地區 regionText, 薪資原文 salaryText, 學歷 educationText, 經歷 experienceText,
\* 擅長工具 skillsText, 工作內容 descriptionPreview, 網址 url
JobInfo(job) ==
    [title              |-> Get(job, "jobName", None),
     company            |-> Get(job, "custName", None),
     regionText         |-> Get(job, "jobAddrNoDesc", None),
     salaryText         |-> Get(job, "salaryDesc", None),
     educationText      |-> Get(job, "optionEdu", None),
     experienceText     |-> Get(job, "periodDesc", None),
     skillsText         |-> SkillStr(job),
     descriptionPreview |-> Preview(job),
     url                |-> Url(job)]

(***************************************************************************)
(* The raw records the search endpoint is taken to return.                 *)
(***************************************************************************)
FullJob ==
    [jobNo         |-> <<"1">>,
     jobName       |-> <<"J">>,
     custName      |-> <<"C">>,
     jobAddrNoDesc |-> <<"T", "P", "E", "x">>,
     salaryDesc    |-> <<"4", "0">>,
     optionEdu     |-> <<"e">>,
     periodDesc    |-> <<"p">>,
     specialty     |-> <<[code |-> <<"1">>, description |-> <<"P", "y">>],
                         [code |-> <<"2">>, description |-> <<"S">>]>>,
     description   |-> <<"d">>,
     link          |-> [job |-> <<"/", "/", "j">>, cust |-> <<"/", "/", "c">>]]

\* a record in which the source omits every optional field
BareJob == [jobNo |-> <<"2">>]

\* an empty link object and an empty specialty list
EmptyLinkJob == [FullJob EXCEPT !.jobNo = <<"3">>, !.link = EmptyDict,
                                !.specialty = <<>>]

\* a link object without a job path
NoJobPathJob == [FullJob EXCEPT !.jobNo = <<"4">>,
                                !.link = [cust |-> <<"/", "/", "c">>]]

\* a description longer than the preview
LongJob == [FullJob EXCEPT !.jobNo = <<"5">>,
                           !.description = [i \in 1..(PreviewLen + 1) |-> "x"]]

\* a skill descriptor without a description
NoDescriptionSkillJob ==
    [FullJob EXCEPT !.jobNo = <<"6">>, !.specialty = <<[code |-> <<"1">>]>>]

\* a skill descriptor whose description is null
NullSkillJob ==
    [FullJob EXCEPT !.jobNo = <<"7">>,
                    !.specialty = <<[code |-> <<"1">>, description |-> None]>>]

\* a null description
NullDescriptionJob == [FullJob EXCEPT !.jobNo = <<"8">>, !.description = None]

Jobs == {FullJob, BareJob, EmptyLinkJob, NoJobPathJob, LongJob,
         NoDescriptionSkillJob, NullSkillJob, NullDescriptionJob}

\* the non-empty lists of at most n records
JobLists(n) == UNION {[1..k -> Jobs] : k \in 1..n}

(***************************************************************************)
(* Responses of the endpoint to one GET (lines 50-56).                     *)
(*   "connection_error"  requests.get raises                               *)
(*   "not_json"          response.json() raises                            *)
(*   "no_data"           a JSON object without "data"                      *)
(*   "data_null"         {"data": null}                                    *)
(*   "no_list"           {"data": {}}                                      *)
(*   "list_null"         {"data": {"list": null}}                          *)
(*   "list"              {"data": {"list": [...]}}                         *)
(***************************************************************************)
Response(kind, list) == [kind |-> kind, list |-> list]

\* line 53, evaluated left to right with short-circuit: "break", "raise"
\* (TypeError: `in` on None, len of None) or "jobs"
Line53(r) ==
    IF r.kind = "no_data" THEN "break"
    ELSE IF r.kind = "data_null" THEN "raise"
    ELSE IF r.kind = "no_list" THEN "break"
    ELSE IF r.kind = "list_null" THEN "raise"
    ELSE IF Len(r.list) = 0 THEN "break"
    ELSE "jobs"

\* line 80: `except Exception` catches every exception class raised here
Caught(exc) ==
    exc \in {"ConnectionError", "JSONDecodeError", "TypeError", "KeyError"}

(***************************************************************************)
(* fetch_104_jobs (lines 23-86), one step per statement group.             *)
(***************************************************************************)
salaryOff ==
    salary_pc = "off" /\ salary_str = EmptyStr /\ avg_salary = NoneNumber

skillOff ==
    /\ skill_pc = "off"
    /\ skill_job = BareJob
    /\ skill_str = EmptyStr
    /\ all_skills = <<>>

fetchIdle ==
    /\ pc = "idle"
    /\ pages = 0
    /\ page = 0
    /\ jobs = <<>>
    /\ job_list = <<>>
    /\ progress_bar = NoneNumber
    /\ status_text = <<"none", 0>>
    /\ returned = <<>>
    /\ requested = <<>>
    /\ inflight = 0
    /\ served = <<>>
    /\ reports = <<>>
    /\ errors = <<>>
    /\ escaped = FALSE

\* the state before the button is pressed (line 127)
Init == fetchIdle /\ salaryOff /\ skillOff

\* lines 23-32: the call with its pages argument (slider bounds 1..10, line 117)
Call ==
    /\ pc = "idle"
    /\ \E p \in 1..MaxPages : pages' = p
    /\ page' = 0
    /\ job_list' = <<>>
    /\ progress_bar' = Int_(0)
    /\ reports' = <<Int_(0)>>
    /\ pc' = "loop"
    /\ UNCHANGED <<jobs, status_text, returned, requested, inflight, served,
                   errors, escaped>>
    /\ UNCHANGED <<salaryVars, skillVars>>

RequestFromZero ==
    /\ pc = "loop"
    /\ page < pages
    /\ page' = page + 1
    /\ status_text' = <<"fetching", page>>
    /\ requested' = Append(requested, page)
    /\ inflight' = inflight + 1
    /\ pc' = "waiting"
    /\ UNCHANGED <<pages, jobs, job_list, progress_bar, returned, served,
                   reports, errors, escaped>>
    /\ UNCHANGED <<salaryVars, skillVars>>

\* lines 34-50: the next page of range(1, pages + 1), its status line and its GET
Request ==
    /\ pc = "loop"
    /\ page < pages
    /\ page' = page + 1
    /\ status_text' = <<"fetching", page + 1>>
    /\ requested' = Append(requested, page + 1)
    /\ inflight' = inflight + 1
    /\ pc' = "waiting"
    /\ UNCHANGED <<pages, jobs, job_list, progress_bar, returned, served,
                   reports, errors, escaped>>
    /\ UNCHANGED <<salaryVars, skillVars>>

\* line 34: range(1, pages + 1) is exhausted
Exhausted ==
    /\ pc = "loop"
    /\ page >= pages
    /\ pc' = "finish"
    /\ UNCHANGED <<pages, page, jobs, job_list, progress_bar, status_text,
                   returned, requested, inflight, served, reports, errors,
                   escaped>>
    /\ UNCHANGED <<salaryVars, skillVars>>

\* the response r to the outstanding request arrives
Answered(r) ==
    /\ pc = "waiting"
    /\ served' = Append(served, r)
    /\ inflight' = inflight - 1

\* lines 80-82, or the exception leaves the function when no clause catches it
Except(exc) ==
    IF Caught(exc)
    THEN /\ errors' = Append(errors, page)
         /\ pc' = "finish"
         /\ escaped' = escaped
    ELSE /\ errors' = errors
         /\ pc' = "done"
         /\ escaped' = TRUE

RetrievalRaisesContinue ==
    /\ Answered(Response("connection_error", <<>>))
    /\ errors' = Append(errors, page)
    /\ pc' = "loop"
    /\ UNCHANGED <<pages, page, jobs, job_list, progress_bar, status_text,
                   returned, requested, reports, escaped>>
    /\ UNCHANGED <<salaryVars, skillVars>>

\* line 50 raises (network failure)
RetrievalRaises ==
    /\ Answered(Response("connection_error", <<>>))
    /\ Except("ConnectionError")
    /\ UNCHANGED <<pages, page, jobs, job_list, progress_bar, status_text,
                   returned, requested, reports>>
    /\ UNCHANGED <<salaryVars, skillVars>>

\* line 51 raises (the body is not JSON)
JsonRaises ==
    /\ Answered(Response("not_json", <<>>))
    /\ Except("JSONDecodeError")
    /\ UNCHANGED <<pages, page, jobs, job_list, progress_bar, status_text,
                   returned, requested, reports>>
    /\ UNCHANGED <<salaryVars, skillVars>>

\* line 53 raises (data or data.list is null)
ShapeRaises ==
    /\ \E k \in {"data_null", "list_null"} :
          /\ Line53(Response(k, <<>>)) = "raise"
          /\ Answered(Response(k, <<>>))
    /\ Except("TypeError")
    /\ UNCHANGED <<pages, page, jobs, job_list, progress_bar, status_text,
                   returned, requested, reports>>
    /\ UNCHANGED <<salaryVars, skillVars>>

EmptyPageContinue ==
    /\ \E k \in {"no_data", "no_list", "list"} :
          /\ Line53(Response(k, <<>>)) = "break"
          /\ Answered(Response(k, <<>>))
    /\ pc' = "loop"
    /\ UNCHANGED <<pages, page, jobs, job_list, progress_bar, status_text,
                   returned, requested, reports, errors, escaped>>
    /\ UNCHANGED <<salaryVars, skillVars>>

\* lines 53-54: no data, no data.list or an empty data.list: break
EmptyPage ==
    /\ \E k \in {"no_data", "no_list", "list"} :
          /\ Line53(Response(k, <<>>)) = "break"
          /\ Answered(Response(k, <<>>))
    /\ pc' = "finish"
    /\ UNCHANGED <<pages, page, jobs, job_list, progress_bar, status_text,
                   returned, requested, reports, errors, escaped>>
    /\ UNCHANGED <<salaryVars, skillVars>>

\* lines 53-58: a non-empty data.list; the loop over its records starts
ReceiveJobs ==
    /\ Len(job_list) < MaxListings
    /\ \E l \in JobLists(MaxListings - Len(job_list)) :
          /\ Line53(Response("list", l)) = "jobs"
          /\ Answered(Response("list", l))
          /\ jobs' = l
    /\ pc' = "records"
    /\ UNCHANGED <<pages, page, job_list, progress_bar, status_text, returned,
                   requested, reports, errors, escaped>>
    /\ UNCHANGED <<salaryVars, skillVars>>

\* lines 58-74: one iteration of the loop over jobs
AppendJob ==
    /\ pc = "records"
    /\ jobs # <<>>
    /\ JobException(Head(jobs)) = ""
    /\ job_list' = Append(job_list, JobInfo(Head(jobs)))
    /\ jobs' = Tail(jobs)
    /\ UNCHANGED <<pc, pages, page, progress_bar, status_text, returned,
                   requested, inflight, served, reports, errors, escaped>>
    /\ UNCHANGED <<salaryVars, skillVars>>

\* the length job_list had when the current page was received
BeforePage ==
    Len(job_list) - (Len(served[Len(served)].list) - Len(jobs))

JobRaisesDropsPage ==
    /\ pc = "records"
    /\ jobs # <<>>
    /\ JobException(Head(jobs)) # ""
    /\ Except(JobException(Head(jobs)))
    /\ job_list' = SubSeq(job_list, 1, BeforePage)
    /\ jobs' = <<>>
    /\ UNCHANGED <<pages, page, progress_bar, status_text, returned,
                   requested, inflight, served, reports>>
    /\ UNCHANGED <<salaryVars, skillVars>>

\* lines 60-72 raise for the record at hand: lines 80-82
JobRaises ==
    /\ pc = "records"
    /\ jobs # <<>>
    /\ JobException(Head(jobs)) # ""
    /\ Except(JobException(Head(jobs)))
    /\ jobs' = <<>>
    /\ UNCHANGED <<pages, page, job_list, progress_bar, status_text, returned,
                   requested, inflight, served, reports>>
    /\ UNCHANGED <<salaryVars, skillVars>>

\* lines 77-78: the page is done; progress, then the pause before the next page
PageDone ==
    /\ pc = "records"
    /\ jobs = <<>>
    /\ progress_bar' = TrueDiv(page, pages)
    /\ reports' = Append(reports, TrueDiv(page, pages))
    /\ pc' = "loop"
    /\ UNCHANGED <<pages, page, jobs, job_list, status_text, returned,
                   requested, inflight, served, errors, escaped>>
    /\ UNCHANGED <<salaryVars, skillVars>>

\* lines 84-86
Finish ==
    /\ pc = "finish"
    /\ status_text' = <<"complete", page>>
    /\ progress_bar' = NoneNumber
    /\ returned' = job_list
    /\ pc' = "done"
    /\ UNCHANGED <<pages, page, jobs, job_list, requested, inflight, served,
                   reports, errors, escaped>>
    /\ UNCHANGED <<salaryVars, skillVars>>

Next ==
    \/ Call
    \/ Request
    \/ Exhausted
    \/ RetrievalRaises
    \/ JsonRaises
    \/ ShapeRaises
    \/ EmptyPage
    \/ ReceiveJobs
    \/ AppendJob
    \/ JobRaises
    \/ PageDone
    \/ Finish

Spec == Init /\ [][Next]_vars

(***************************************************************************)
(* df['薪資原文'].apply(parse_salary) (line 134), for one row.             *)
(***************************************************************************)
\* the characters salary texts are drawn from: digits, the thousands
\* separator, a range mark, and the characters of 面議, 時薪, 日薪, 年薪
SalaryAlphabet == {"1", "2", ",", "~", "mian", "yi", "shi", "ri", "nian", "xin"}

SalaryTexts == UNION {[1..n -> SalaryAlphabet] : n \in 0..MaxSalaryLen}

InitSalary ==
    /\ fetchIdle
    /\ skillOff
    /\ salary_pc = "input"
    /\ salary_str \in SalaryTexts
    /\ avg_salary = NoneNumber

\* line 134 for the row
ApplyParseSalary ==
    /\ salary_pc = "input"
    /\ avg_salary' = parse_salary(salary_str)
    /\ salary_pc' = "parsed"
    /\ UNCHANGED <<salary_str, fetchVars, skillVars>>

NextSalary == ApplyParseSalary

SpecSalary == InitSalary /\ [][NextSalary]_vars

(***************************************************************************)
(* The skill column of one row: joined at line 61, tokenized at lines      *)
(* 185-188.                                                                *)
(***************************************************************************)
SkillAlphabet == {"a", ",", "bu", "ju"}

SkillTexts == UNION {[1..n -> SkillAlphabet] : n \in 0..MaxSkillLen}

Descriptors == {[description |-> d] : d \in SkillTexts}

\* records with a specialty list, and one without the key
SkillJobs ==
    {BareJob} \cup
    {[jobNo |-> <<"9">>, specialty |-> l] :
        l \in UNION {[1..n -> Descriptors] : n \in 0..MaxSkills}}

InitSkill ==
    /\ fetchIdle
    /\ salaryOff
    /\ skill_pc = "input"
    /\ skill_job \in SkillJobs
    /\ skill_str = EmptyStr
    /\ all_skills = <<>>

\* lines 60-61 and 70
JoinSkills ==
    /\ skill_pc = "input"
    /\ ~SkillRaises(skill_job)
    /\ skill_str' = SkillStr(skill_job)
    /\ skill_pc' = "joined"
    /\ UNCHANGED <<skill_job, all_skills, fetchVars, salaryVars>>

\* lines 185-188 for the row
TokenizeSkills ==
    /\ skill_pc = "joined"
    /\ all_skills' =
          IF skill_str # EmptyStr /\ skill_str # Sentinel
          THEN all_skills \o Split(skill_str, Comma)
          ELSE all_skills
    /\ skill_pc' = "tokenized"
    /\ UNCHANGED <<skill_job, skill_str, fetchVars, salaryVars>>

NextSkill == JoinSkills \/ TokenizeSkills

SpecSkill == InitSkill /\ [][NextSkill]_vars

(***************************************************************************)
(* What a run has seen, read off the responses received.                   *)
(***************************************************************************)
\* every record of the page builds its job_info
SuccessfulPage(r) ==
    /\ r.kind = "list"
    /\ r.list # <<>>
    /\ \A i \in 1..Len(r.list) : JobException(r.list[i]) = ""

\* no data.list, or an empty one
EmptyResult(r) ==
    \/ r.kind \in {"no_data", "no_list"}
    \/ r.kind = "list" /\ r.list = <<>>

\* the retrieval or the parsing of the response raises
RetrievalOrParsingFails(r) ==
    r.kind \in {"connection_error", "not_json", "data_null", "list_null"}

\* the position of the first record of the page whose job_info raises, 0 if none
FirstFailing(r) ==
    IF r.kind = "list" /\ \E i \in 1..Len(r.list) : JobException(r.list[i]) # ""
    THEN CHOOSE i \in 1..Len(r.list) :
            /\ JobException(r.list[i]) # ""
            /\ \A j \in 1..(i - 1) : JobException(r.list[j]) = ""
    ELSE 0

\* the job_info of records 1..k of a page
ListingsOf(r, k) == [i \in 1..k |-> JobInfo(r.list[i])]

RECURSIVE ListingsOfPages(_, _)
\* the job_info of all records of pages 1..n, in order
ListingsOfPages(rs, n) ==
    IF n = 0 THEN <<>>
    ELSE ListingsOfPages(rs, n - 1) \o ListingsOf(rs[n], Len(rs[n].list))

RECURSIVE RawRecords(_, _)
\* the raw records of pages 1..n, in order
RawRecords(rs, n) ==
    IF n = 0 THEN <<>> ELSE RawRecords(rs, n - 1) \o rs[n].list

\* the page numbers 1..n in order
UpTo(n) == [i \in 1..n |-> i]

Stopped == pc \in {"finish", "done"}

(***************************************************************************)
(* C1.  Empty-page stop: if pages 1..n-1 were processed successfully and   *)
(* the response for page n has no data.list or an empty one, pagination    *)
(* stops: page n is the last page ever requested, no error is surfaced,    *)
(* and the collection, as accumulated and as returned, is exactly the      *)
(* listings of pages 1..n-1 in order.                                      *)
(***************************************************************************)
C1_EmptyPageStop ==
    \A n \in 1..Len(served) :
        (/\ EmptyResult(served[n])
         /\ \A m \in 1..(n - 1) : SuccessfulPage(served[m]))
        => /\ Stopped
           /\ requested = UpTo(n)
           /\ Len(served) = n
           /\ inflight = 0
           /\ errors = <<>>
           /\ ~escaped
           /\ job_list = ListingsOfPages(served, n - 1)
           /\ (pc = "done" => returned = ListingsOfPages(served, n - 1))

\* page 2 of 3 is empty and the run has returned the listings of page 1
C1_Witness ==
    /\ pc = "done"
    /\ pages = 3
    /\ Len(served) = 2
    /\ EmptyResult(served[2])
    /\ returned # <<>>
    /\ returned = ListingsOfPages(served, 1)

(***************************************************************************)
(* C2.  Error abort: if the retrieval or the response parsing of page n    *)
(* raises, an error is surfaced for page n exactly once, page n is not     *)
(* retried and no later page is requested, no exception leaves the call,   *)
(* and the collection is exactly the listings of pages 1..n-1.             *)
(***************************************************************************)
C2_ErrorAbort ==
    \A n \in 1..Len(served) :
        RetrievalOrParsingFails(served[n])
        => /\ Stopped
           /\ errors = <<n>>
           /\ requested = UpTo(n)
           /\ Len(served) = n
           /\ inflight = 0
           /\ ~escaped
           /\ job_list = ListingsOfPages(served, n - 1)
           /\ (pc = "done" => returned = ListingsOfPages(served, n - 1))

\* page 2 of 3 fails to be retrieved and the run has returned the listings of page 1
C2_Witness ==
    /\ pc = "done"
    /\ pages = 3
    /\ Len(served) = 2
    /\ served[2].kind = "connection_error"
    /\ errors = <<2>>
    /\ returned # <<>>

(***************************************************************************)
(* C3.  Sequential pagination: the requests are for pages 1, 2, 3, ... in  *)
(* order without gaps or repeats, at most `pages` of them, at most one is  *)
(* outstanding, and while the request for page k is outstanding every      *)
(* earlier page has been answered and processed to its end (its records    *)
(* consumed and its progress reported).                                    *)
(***************************************************************************)
C3_SequentialPagination ==
    /\ requested = UpTo(Len(requested))
    /\ Len(requested) <= pages
    /\ inflight \in {0, 1}
    /\ Len(served) + inflight = Len(requested)
    /\ inflight = 1 =>
          /\ pc = "waiting"
          /\ jobs = <<>>
          /\ Len(reports) = Len(requested)
          /\ \A m \in 1..Len(served) : SuccessfulPage(served[m])

\* the third request is outstanding
C3_Witness ==
    /\ pc = "waiting"
    /\ inflight = 1
    /\ requested = <<1, 2, 3>>
    /\ Len(job_list) >= 2

(***************************************************************************)
(* C4.  Progress reporting: after the 0 the sink is created with, the      *)
(* value reported after the n-th successfully processed page is exactly    *)
(* n / pages; every value lies in [0,1], the values increase strictly,     *)
(* between pages there is one report per successfully processed page (none *)
(* for an empty or failed page), and a finished run has reported 1 iff all *)
(* pages succeeded.                                                        *)
(***************************************************************************)
C4_ProgressReporting ==
    /\ pc # "idle" => Len(reports) >= 1 /\ reports[1] = Int_(0)
    /\ \A n \in 1..(Len(reports) - 1) :
          reports[n + 1].num * pages = n * reports[n + 1].den
    /\ \A i \in 1..Len(reports) :
          /\ ~reports[i].isNone
          /\ reports[i].den > 0
          /\ 0 <= reports[i].num /\ reports[i].num <= reports[i].den
    /\ \A i \in 1..(Len(reports) - 1) : NumLt(reports[i], reports[i + 1])
    /\ pc \notin {"idle", "records"} =>
          Len(reports) - 1 =
             Cardinality({n \in 1..Len(served) : SuccessfulPage(served[n])})
    /\ pc = "records" =>
          Len(reports) - 1 = Len(served) - 1
    /\ pc = "done" =>
          ((\E i \in 1..Len(reports) : NumEq(reports[i], Int_(1)))
             <=> (/\ Len(served) = pages
                  /\ \A n \in 1..pages : SuccessfulPage(served[n])))

\* a run of 3 pages, all successful, has reported 0, 1/3, 2/3 and 1
C4_Witness ==
    /\ pc = "done"
    /\ pages = 3
    /\ Len(reports) = 4
    /\ NumEq(reports[4], Int_(1))
    /\ NumLt(reports[2], reports[3])

(***************************************************************************)
(* C10.  Mid-page failure keeps a partial page: if building the job_info   *)
(* of the k-th record of page n raises, then no progress is reported for   *)
(* page n and no later page is requested, and once the exception is        *)
(* handled an error is surfaced for page n and the collection is the       *)
(* listings of pages 1..n-1 followed by those of records 1..k-1 of page n. *)
(***************************************************************************)
C10_MidPageFailure ==
    \A n \in 1..Len(served) :
        FirstFailing(served[n]) > 0
        => LET k == FirstFailing(served[n])
               kept == ListingsOfPages(served, n - 1) \o ListingsOf(served[n], k - 1)
           IN  /\ pc \in {"records", "finish", "done"}
               /\ requested = UpTo(n)
               /\ Len(served) = n
               /\ Len(reports) = n
               /\ ~escaped
               /\ pc = "records" => errors = <<>>
               /\ Stopped => errors = <<n>> /\ job_list = kept
               /\ pc = "done" => returned = kept

\* page 2 fails at its second record: page 1 and the first record of page 2 are returned
C10_Witness ==
    /\ pc = "done"
    /\ Len(served) = 2
    /\ pages = 3
    /\ FirstFailing(served[2]) = 2
    /\ Len(returned) = Len(served[1].list) + 1
    /\ errors = <<2>>

(***************************************************************************)
(* The digit runs of a text, stated without the scan.                      *)
(***************************************************************************)
DecimalDigit == {"0", "1", "2", "3", "4", "5", "6", "7", "8", "9"}

\* the text without its thousands separators
WithoutSeparators(s) == SelectSeq(s, LAMBDA c : c # ",")

\* <<i, j>> such that t[i..j] is a maximal run of digits
MaximalRuns(t) ==
    {ij \in (1..Len(t)) \X (1..Len(t)) :
        /\ ij[1] <= ij[2]
        /\ \A k \in ij[1]..ij[2] : t[k] \in DecimalDigit
        /\ (ij[1] = 1 \/ t[ij[1] - 1] \notin DecimalDigit)
        /\ (ij[2] = Len(t) \/ t[ij[2] + 1] \notin DecimalDigit)}

RECURSIVE Pow10(_)
Pow10(n) == IF n = 0 THEN 1 ELSE 10 * Pow10(n - 1)

ValueOfDigit(c) ==
    CASE c = "0" -> 0 [] c = "1" -> 1 [] c = "2" -> 2 [] c = "3" -> 3
      [] c = "4" -> 4 [] c = "5" -> 5 [] c = "6" -> 6 [] c = "7" -> 7
      [] c = "8" -> 8 [] c = "9" -> 9

RECURSIVE RunValue(_, _, _)
\* the decimal value of t[i..j]
RunValue(t, i, j) ==
    IF i > j THEN 0
    ELSE ValueOfDigit(t[i]) * Pow10(j - i) + RunValue(t, i + 1, j)

\* the run that starts leftmost among rs
Leftmost(rs) == CHOOSE r \in rs : \A q \in rs : r[1] <= q[1]

\* the text carries a marker that parse_salary looks for
HasCheckedMarker(s) ==
    \/ Contains(s, <<"mian", "yi">>)
    \/ Contains(s, <<"shi", "xin">>)
    \/ Contains(s, <<"ri", "xin">>)

(***************************************************************************)
(* C5.  Salary digit-run rule: for a text with neither the negotiable      *)
(* marker nor an hourly or daily marker, with the thousands separators     *)
(* removed and the maximal digit runs taken left to right, the result is   *)
(* exactly (a+b)/2 for two runs a, b (the .5 included when a+b is odd),    *)
(* the single value for one run, and absent for zero or more than two.     *)
(***************************************************************************)
C5_DigitRunRule ==
    (salary_pc = "parsed" /\ ~HasCheckedMarker(salary_str))
    => LET t == WithoutSeparators(salary_str)
           runs == MaximalRuns(t)
       IN  IF Cardinality(runs) = 2
           THEN LET first == Leftmost(runs)
                    second == Leftmost(runs \ {first})
                    a == RunValue(t, first[1], first[2])
                    b == RunValue(t, second[1], second[2])
                IN  /\ ~avg_salary.isNone
                    /\ 2 * avg_salary.num = (a + b) * avg_salary.den
           ELSE IF Cardinality(runs) = 1
           THEN LET only == Leftmost(runs)
                IN  /\ ~avg_salary.isNone
                    /\ avg_salary.num
                          = RunValue(t, only[1], only[2]) * avg_salary.den
           ELSE avg_salary.isNone

\* "1,2~1": the runs 12 and 1, whose mean 6.5 has a fraction
C5_Witness ==
    /\ salary_pc = "parsed"
    /\ salary_str = <<"1", ",", "2", "~", "1">>
    /\ avg_salary = Num(13, 2)

\* the text is of a non-monthly pay scheme: hourly, daily or annual
NonMonthlyScheme(s) ==
    \/ Contains(s, <<"shi", "xin">>)
    \/ Contains(s, <<"ri", "xin">>)
    \/ Contains(s, <<"nian", "xin">>)

(***************************************************************************)
(* C6.  Monthly-only estimate: the estimate is present iff the text is a   *)
(* single- or double-bound monthly figure; for every text with the         *)
(* negotiable marker or of a non-monthly pay scheme (hourly, daily, or     *)
(* another one, such as annual) the result is absent whatever its digit    *)
(* runs.                                                                   *)
(***************************************************************************)
C6_MonthlyOnly ==
    salary_pc = "parsed"
    => LET excluded == \/ Contains(salary_str, <<"mian", "yi">>)
                       \/ NonMonthlyScheme(salary_str)
           bounds == Cardinality(MaximalRuns(WithoutSeparators(salary_str)))
       IN  /\ excluded => avg_salary.isNone
           /\ ~avg_salary.isNone <=> (~excluded /\ bounds \in {1, 2})

(***************************************************************************)
(* C7.  Skill join/split round-trip: for every source descriptor list,     *)
(* the skills text is the comma-join of the descriptions in source order   *)
(* and tokenizing it yields exactly the original descriptions in order; an *)
(* empty or absent list yields the sentinel and zero tokens.               *)
(***************************************************************************)
C7_SkillRoundTrip ==
    skill_pc = "tokenized"
    => LET source == Get(skill_job, "specialty", <<>>)
           descriptions == [i \in 1..Len(source) |-> source[i].description]
       IN  IF source = <<>>
           THEN skill_str = <<"bu", "ju">> /\ all_skills = <<>>
           ELSE /\ skill_str = JoinWith(<<",">>, descriptions)
                /\ all_skills = descriptions

\* the fields of a listing
ListingFields ==
    {"title", "company", "regionText", "salaryText", "educationText",
     "experienceText", "skillsText", "descriptionPreview", "url"}

(***************************************************************************)
(* C8.  Listing shape: every listing of the collection has all nine fields *)
(* and its title and company are strings (possibly empty), never null,     *)
(* also for records in which the source omits the job or company name.     *)
(***************************************************************************)
C8_ListingShape ==
    \A i \in 1..Len(job_list) :
        /\ DOMAIN job_list[i] = ListingFields
        /\ job_list[i].title # None
        /\ job_list[i].company # None

(***************************************************************************)
(* C9.  URL derivation: the url of a listing is the scheme prefix followed *)
(* by the job path when the record has a link object with a job path, and  *)
(* the empty string in every other case (no link object, an empty one, or  *)
(* one without a job path).                                                *)
(***************************************************************************)
C9_UrlDerivation ==
    \A i \in 1..Len(job_list) :
        LET job == RawRecords(served, Len(served))[i]
        IN  job_list[i].url =
               IF "link" \in DOMAIN job /\ "job" \in DOMAIN job.link
               THEN <<"h", "t", "t", "p", "s", ":">> \o job.link.job
               ELSE <<>>

====
